---------------------------- MODULE Spec2Model ----------------------------
(***************************************************************************)
(* Stepper16bitsControl: the timeline compiler (Automat.add_seq), the      *)
(* instruction parser (Seq.parse), the pulse word encoding                 *)
(* (Motor.convert_step) and the PIO consumer fed through the TX FIFO       *)
(* (SM_16bits), as one state machine.                                      *)
(*                                                                         *)
(* A run is the construction Automat(gcode_file): read the plan, count the *)
(* motors, start the state machine, create the motors, compile every       *)
(* instruction into _seq16bits, then replay it once or in a loop.  The PIO *)
(* program runs concurrently with the Python program from the moment       *)
(* SM_16bits.__init__ activates it, and keeps running after the Python     *)
(* program has ended unless exit() stopped it.                             *)
(*                                                                         *)
(* Texts are sequences of one-character strings; PulseWords are integers   *)
(* and the bit operations are computed on them.  Slot k of the timeline    *)
(* (0-based, as in the source) is seq16bits[k+1].                          *)
(***************************************************************************)
EXTENDS Integers, Sequences, FiniteSets, TLC

\* ------------------------------------------------------------------ bounds

\* Longest instruction list of a channel in the enumerated plans.
MaxReq == 2

\* Largest depth of the TX FIFO between put() and the PIO program: a run is
\* checked for every depth in 1..FifoDepth.  The RP2040 FIFO joined by
\* fifo_join=PIO.JOIN_TX holds 8 words; the model keeps it small so that
\* put() blocks on a full FIFO with the short timelines enumerated here.
FifoDepth == 2

\* Number of times the loop of animate_infinite_loop may restart put().
MaxLoops == 2

\* ------------------------------------------------------- integers and bits

Pow2(n) == 2 ^ n

\* x << n
Shl(x, n) == x * Pow2(n)

RECURSIVE BitOr(_, _)
\* a | b on non-negative integers.
BitOr(a, b) ==
    IF a = 0 THEN b
    ELSE IF b = 0 THEN a
    ELSE (IF a % 2 = 1 \/ b % 2 = 1 THEN 1 ELSE 0) + 2 * BitOr(a \div 2, b \div 2)

\* ------------------------------------------------------------ Motor (pins)

\* Motor.__init__: self._pin_dir = id*2
pin_dir(id) == id * 2

\* A step pin placed on the next channel's direction line.
mut_pin_step(id) == id * 2 + 2

\* Motor.__init__: self._pin_step = id*2+1
pin_step(id) == id * 2 + 1

\* A second half-word that forgets the direction.
mut_convert_step(id, dir, action) ==
    Shl(dir, pin_dir(id)) + Shl(action, pin_step(id))

\* Motor.convert_step: the 32-bit word of one slot for motor id.
convert_step(id, dir, action) ==
    Shl(dir, pin_dir(id)) + Shl(action, pin_step(id)) + Shl(dir, 16 + pin_dir(id))

\* MODE of the driver classes: the value of the sleep pin for wake and sleep.
MODE(driver) ==
    CASE driver = "A4988"   -> [wake |-> 0, sleep |-> 1]
      [] driver = "TMC2208" -> [wake |-> 0, sleep |-> 1]
      [] driver = "TMC2209" -> [wake |-> 1, sleep |-> 0]

\* The drivers Automat.__init__ recognises.
Drivers == {"A4988", "TMC2208", "TMC2209"}

\* --------------------------------------------------------------- Seq.parse

Digits == {"0", "1", "2", "3", "4", "5", "6", "7", "8", "9"}

\* The value of one decimal digit, as int() reads it.
DigitVal(c) ==
    CASE c = "0" -> 0 [] c = "1" -> 1 [] c = "2" -> 2 [] c = "3" -> 3
      [] c = "4" -> 4 [] c = "5" -> 5 [] c = "6" -> 6 [] c = "7" -> 7
      [] c = "8" -> 8 [] c = "9" -> 9

RECURSIVE ToInt(_)
\* int(groups[k]) of a run of digits.
ToInt(ds) ==
    IF ds = <<>> THEN 0
    ELSE 10 * ToInt(SubSeq(ds, 1, Len(ds) - 1)) + DigitVal(ds[Len(ds)])

RECURSIVE DigitsEnd(_, _)
\* The index after the longest run of digits of t starting at i (\d+ is greedy
\* and what follows it in the pattern is never a digit).
DigitsEnd(t, i) ==
    IF i <= Len(t) /\ t[i] \in Digits THEN DigitsEnd(t, i + 1) ELSE i

\* The result of a failed match.
None == [match |-> FALSE]

\* str(i) for a motor index.
Str(i) == <<"0", "1", "2", "3", "4", "5", "6", "7", "8", "9">>[i + 1]

\* Seq.parse: re.match(r'^a([01])_s(\d+)_d([01])_v(\d+)$', gcode_seq), then
\* the four groups converted by int().  MicroPython's $ matches at the end of
\* the text only.
parse(t) ==
    LET n  == Len(t)
        e1 == DigitsEnd(t, 5)
        e2 == DigitsEnd(t, e1 + 5)
    IN  IF /\ n >= 11
           /\ t[1] = "a" /\ t[2] \in {"0", "1"} /\ t[3] = "_" /\ t[4] = "s"
           /\ e1 > 5 /\ e1 + 4 <= n
           /\ t[e1] = "_" /\ t[e1 + 1] = "d" /\ t[e1 + 2] \in {"0", "1"}
           /\ t[e1 + 3] = "_" /\ t[e1 + 4] = "v"
           /\ e2 > e1 + 5 /\ e2 = n + 1
        THEN [match  |-> TRUE,
              action |-> ToInt(<<t[2]>>),
              step   |-> ToInt(SubSeq(t, 5, e1 - 1)),
              dir    |-> ToInt(<<t[e1 + 2]>>),
              speed  |-> ToInt(SubSeq(t, e1 + 5, e2 - 1))]
        ELSE None


\* --------------------------------------------------------- Automat.add_seq

\* An expansion that forgets the speed factor.
mut_ExpandedSteps(req) == req.step

\* add_seq: steps = steps * (1+speed)
ExpandedSteps(req) == req.step * (1 + req.speed)

\* A growth that forgets the test: the zeros are always appended.
mut_Extend(seq, cursor, steps) == seq \o [i \in 1..steps |-> 0]

\* add_seq, "extend sequence if need be": when the request does not fit,
\* `steps` zero words are appended.
Extend(seq, cursor, steps) ==
    IF steps + cursor > Len(seq) THEN seq \o [i \in 1..steps |-> 0] ELSE seq

\* add_seq, first loop: direction and action=0 are OR-ed into every slot of
\* [cursor, cursor+steps).
InitDirection(seq, id, cursor, steps, dir) ==
    [k \in 1..Len(seq) |->
        IF (k - 1) \in cursor..(cursor + steps - 1)
        THEN BitOr(seq[k], convert_step(id, dir, 0))
        ELSE seq[k]]

\* A second loop that forgets the stride: range(0, steps).
mut_SetAction(seq, id, cursor, steps, dir, action, speed) ==
    [k \in 1..Len(seq) |->
        IF (k - 1) \in cursor..(cursor + steps - 1)
        THEN BitOr(seq[k], convert_step(id, dir, action))
        ELSE seq[k]]

\* add_seq, second loop: range(0, steps, 1+speed) gets direction and action.
SetAction(seq, id, cursor, steps, dir, action, speed) ==
    [k \in 1..Len(seq) |->
        IF /\ (k - 1) \in cursor..(cursor + steps - 1)
           /\ (k - 1 - cursor) % (1 + speed) = 0
        THEN BitOr(seq[k], convert_step(id, dir, action))
        ELSE seq[k]]

\* An add_seq without the growth step: the two loops run on the timeline
\* as it is.
mut_add_seq(seq, id, cursor, req) ==
    LET steps == ExpandedSteps(req)
    IN  SetAction(
            InitDirection(seq, id, cursor, steps, req.dir),
            id, cursor, steps, req.dir, req.action, req.speed)

\* The timeline after add_seq(id_motor=id, seq) for a parsed request.
add_seq(seq, id, cursor, req) ==
    LET steps == ExpandedSteps(req)
    IN  SetAction(
            InitDirection(Extend(seq, cursor, steps), id, cursor, steps, req.dir),
            id, cursor, steps, req.dir, req.action, req.speed)

\* ---------------------------------------------------------------- the plan

\* a1_s2_d1_v0
GcodeMove2 == <<"a", "1", "_", "s", "2", "_", "d", "1", "_", "v", "0">>
\* a1_s1_d0_v1
GcodeSlow1 == <<"a", "1", "_", "s", "1", "_", "d", "0", "_", "v", "1">>
\* a0_s1_d1_v0
GcodeHold1 == <<"a", "0", "_", "s", "1", "_", "d", "1", "_", "v", "0">>
\* a1_s01_d1_v01
GcodeLead01 == <<"a", "1", "_", "s", "0", "1", "_", "d", "1", "_", "v", "0", "1">>
\* a1_s10_d1_v0
GcodeMove10 == <<"a", "1", "_", "s", "1", "0", "_", "d", "1", "_", "v", "0">>
\* a1_s3_d0_v1
GcodeSlow3 == <<"a", "1", "_", "s", "3", "_", "d", "0", "_", "v", "1">>
\* fake
GcodeFake == <<"f", "a", "k", "e">>
\* a1s2d0v1
GcodeNoSep == <<"a", "1", "s", "2", "d", "0", "v", "1">>

Pool == {GcodeMove2, GcodeSlow1, GcodeHold1}

\* The instruction lists of at most MaxReq instructions of the pool.
Lists == UNION {[1..n -> Pool] : n \in 0..MaxReq}

\* GCODE_SEQ objects outside the two-channel product.
NineMotors == [k \in {"0", "1", "2", "3", "4", "5", "6", "7", "8"} |-> <<GcodeHold1>>]
EightMotors == [k \in {"0", "1", "2", "3", "4", "5", "6", "7"} |-> <<GcodeSlow1>>]
TenThenSix == [k \in {"0", "1"} |-> IF k = "0" THEN <<GcodeMove10>> ELSE <<GcodeSlow3>>]
TwoMotors == [k \in {"0", "1"} |-> IF k = "0" THEN <<GcodeMove2>> ELSE <<GcodeHold1, GcodeSlow1>>]
SpecialSeqs ==
    { NineMotors, EightMotors, TenThenSix,
      [k \in {"1"} |-> <<GcodeMove2>>],
      [k \in {"0", "1"} |-> IF k = "0" THEN <<>> ELSE <<GcodeFake>>],
      [k \in {"0", "1", "2"} |->
          IF k = "0" THEN <<GcodeMove2>> ELSE IF k = "1" THEN <<>> ELSE <<GcodeFake>>],
      [k \in {"0", "1"} |-> IF k = "0" THEN <<GcodeMove2, GcodeFake>> ELSE <<GcodeSlow1>>],
      [k \in {"0", "1"} |-> IF k = "0" THEN <<GcodeMove2>> ELSE <<GcodeNoSep>>],
      [k \in {"0"} |-> <<GcodeLead01, GcodeHold1>>] }

\* The motion plans a run may be given: what read_gcode finds in the file.
\* file is "ok", "oserror" (open fails) or "keyerror" (a top-level key is
\* missing).
Plans ==
    [file : {"ok"}, DRIVER : {"A4988"}, MODE : {"ONE"}, GCODE_SEQ : [{"0", "1"} -> Lists]]
    \cup [file : {"ok"}, DRIVER : {"A4988", "TMC2208", "TMC2209", "DRV8825"},
          MODE : {"ONE", "LOOP", "STEP"}, GCODE_SEQ : {TwoMotors}]
    \cup [file : {"ok"}, DRIVER : {"TMC2209"}, MODE : {"ONE", "LOOP"},
          GCODE_SEQ : SpecialSeqs]
    \cup [file : {"oserror", "keyerror"}, DRIVER : {"A4988"}, MODE : {"ONE"},
          GCODE_SEQ : {TwoMotors}]

\* ---------------------------------------------------------------- the state

VARIABLES
    plan,            \* the content of the gcode file
    fifo_depth,      \* the number of words the TX FIFO holds
    pc,              \* where the Python program is
    nb_motors,       \* self._nb_motors
    has_sm,          \* hasattr(self, '_sm')
    sm_active,       \* the PIO state machine runs (StateMachine.active)
    has_motors,      \* hasattr(self, '_motors')
    pin_sleep,       \* the value of Pin(18), shared by all motors; -1 unset
    seq16bits,       \* self._seq16bits
    motors_len_seq,  \* self._motors_len_seq
    ci, cj,          \* the setup loops: motor i, instruction j of its list
    put_i,           \* put(): index of the next word of the array to write
    nloops,          \* completed put() calls of the infinite loop
    fifo,            \* the TX FIFO
    osr, osr_count,  \* the output shift register and its shift count
    pins,            \* the 16 output pins, as a 16-bit number
    exit_status,     \* -1 while running, then the status of the process
    emitted,         \* history: the half-words driven onto the pins
    enqueued,        \* history: the words written to the FIFO
    woken,           \* history: the motors wake() was called on
    stop_called,     \* history: SM_16bits.stop() was called
    last_op          \* history: the last step taken

vars == <<plan, fifo_depth, pc, nb_motors, has_sm, sm_active, has_motors, pin_sleep,
          seq16bits, motors_len_seq, ci, cj, put_i, nloops, fifo, osr,
          osr_count, pins, exit_status, emitted, enqueued, woken, stop_called,
          last_op>>

python_vars == <<pc, nb_motors, has_sm, sm_active, has_motors, pin_sleep, seq16bits,
                 motors_len_seq, ci, cj, put_i, nloops, exit_status, woken,
                 stop_called>>

pio_vars == <<osr, osr_count, pins, emitted>>

\* Before the run: nothing is constructed, the pins are low (out_init) and
\* the OSR is empty (shift count 32).
Init ==
    /\ plan \in Plans
    /\ fifo_depth \in 1..FifoDepth
    /\ pc = "read"
    /\ nb_motors = 0
    /\ has_sm = FALSE
    /\ sm_active = FALSE
    /\ has_motors = FALSE
    /\ pin_sleep = -1
    /\ seq16bits = <<>>
    /\ motors_len_seq = [i \in 0..7 |-> 0]
    /\ ci = 0
    /\ cj = 0
    /\ put_i = 0
    /\ nloops = 0
    /\ fifo = <<>>
    /\ osr = 0
    /\ osr_count = 32
    /\ pins = 0
    /\ exit_status = -1
    /\ emitted = <<>>
    /\ enqueued = <<>>
    /\ woken = {}
    /\ stop_called = FALSE
    /\ last_op = "init"

\* ------------------------------------------------------------ Automat.exit

\* sleep_motors: every motor's sleep() writes MODE['sleep'] to the shared pin.
sleep_motors == IF nb_motors > 0 THEN MODE(plan.DRIVER).sleep ELSE pin_sleep

\* wake_motors: every motor's wake() writes MODE['wake'] to the shared pin.
wake_motors == IF nb_motors > 0 THEN MODE(plan.DRIVER).wake ELSE pin_sleep

\* An exit() that forgets self._sm.stop().
mut_exit ==
    /\ UNCHANGED <<sm_active, stop_called>>
    /\ pin_sleep' = (IF has_motors THEN sleep_motors ELSE pin_sleep)
    /\ exit_status' = 1
    /\ pc' = "exited"

\* Automat.exit: stop the state machine if there is one, put the motors to
\* sleep if they exist, sys.exit(1).
exit ==
    /\ sm_active' = (IF has_sm THEN FALSE ELSE sm_active)
    /\ stop_called' = (stop_called \/ has_sm)
    /\ pin_sleep' = (IF has_motors THEN sleep_motors ELSE pin_sleep)
    /\ exit_status' = 1
    /\ pc' = "exited"

\* What exit() leaves alone when it is not called.
no_exit == UNCHANGED <<sm_active, stop_called, pin_sleep, exit_status>>

\* -------------------------------------------------------- Automat.__init__

\* len([gcode for gcode in self._gcode_seq.values() if len(gcode)>0])
CountMotors(g) == Cardinality({k \in DOMAIN g : Len(g[k]) > 0})

\* A limit that lets a ninth motor through.
mut_TooManyMotors(n) == n > 9

\* if self._nb_motors > 8
TooManyMotors(n) == n > 8

\* read_gcode and the count of the motors: a file that cannot be read or
\* lacks a top-level key, or more than 8 motors, ends the run in exit().
ReadGcode ==
    /\ pc = "read"
    /\ IF plan.file # "ok"
       THEN exit /\ UNCHANGED nb_motors
       ELSE /\ nb_motors' = CountMotors(plan.GCODE_SEQ)
            /\ IF TooManyMotors(nb_motors')
               THEN exit
               ELSE pc' = "start_sm" /\ no_exit
    /\ last_op' = "ReadGcode"
    /\ UNCHANGED <<plan, fifo_depth, has_sm, has_motors, seq16bits, motors_len_seq, ci, cj,
                   put_i, nloops, fifo, woken, enqueued>>
    /\ UNCHANGED pio_vars

\* self._sm = SM_16bits(self._freq_sm): the PIO program is loaded and started.
StartSM ==
    /\ pc = "start_sm"
    /\ has_sm' = TRUE
    /\ sm_active' = TRUE
    /\ pc' = "motors"
    /\ last_op' = "StartSM"
    /\ UNCHANGED <<plan, fifo_depth, nb_motors, has_motors, pin_sleep, seq16bits,
                   motors_len_seq, ci, cj, put_i, nloops, fifo, exit_status,
                   woken, enqueued, stop_called>>
    /\ UNCHANGED pio_vars

\* The motors of the driver named by the plan; each Motor.__init__ puts the
\* shared sleep pin in the sleep state.  An unknown driver ends in exit().
CreateMotors ==
    /\ pc = "motors"
    /\ IF plan.DRIVER \in Drivers
       THEN /\ has_motors' = TRUE
            /\ pin_sleep' = sleep_motors
            /\ pc' = "setup"
            /\ UNCHANGED <<sm_active, stop_called, exit_status>>
       ELSE exit /\ UNCHANGED has_motors
    /\ last_op' = "CreateMotors"
    /\ UNCHANGED <<plan, fifo_depth, nb_motors, has_sm, seq16bits, motors_len_seq, ci, cj,
                   put_i, nloops, fifo, woken, enqueued>>
    /\ UNCHANGED pio_vars

\* The setup loops are at motor ci, whose list is in the plan.
InSetup == pc = "setup" /\ ci < nb_motors /\ Str(ci) \in DOMAIN plan.GCODE_SEQ

\* self.add_seq(id_motor=i, seq=Seq(gcode)) for the next gcode of motor ci.
AddSeq ==
    /\ InSetup
    /\ cj < Len(plan.GCODE_SEQ[Str(ci)])
    /\ LET dic_seq == parse(plan.GCODE_SEQ[Str(ci)][cj + 1])
       IN  IF dic_seq = None
           THEN exit /\ UNCHANGED <<seq16bits, motors_len_seq, cj>>
           ELSE /\ seq16bits' = add_seq(seq16bits, ci, motors_len_seq[ci], dic_seq)
                /\ motors_len_seq' =
                       [motors_len_seq EXCEPT ![ci] = @ + ExpandedSteps(dic_seq)]
                /\ cj' = cj + 1
                /\ UNCHANGED pc
                /\ no_exit
    /\ last_op' = "AddSeq"
    /\ UNCHANGED <<plan, fifo_depth, nb_motors, has_sm, has_motors, ci, put_i, nloops, fifo,
                   woken, enqueued>>
    /\ UNCHANGED pio_vars

\* for i in range(self._nb_motors): the list of motor ci is exhausted.
NextMotor ==
    /\ InSetup
    /\ cj = Len(plan.GCODE_SEQ[Str(ci)])
    /\ ci' = ci + 1
    /\ cj' = 0
    /\ last_op' = "NextMotor"
    /\ UNCHANGED <<plan, fifo_depth, pc, nb_motors, has_sm, sm_active, has_motors, pin_sleep,
                   seq16bits, motors_len_seq, put_i, nloops, fifo, exit_status,
                   woken, enqueued, stop_called>>
    /\ UNCHANGED pio_vars

\* gcodes = self._gcode_seq[str(i)] for a key the plan does not have: the
\* KeyError is caught nowhere and the program ends with a traceback.
SetupKeyError ==
    /\ pc = "setup"
    /\ ci < nb_motors
    /\ Str(ci) \notin DOMAIN plan.GCODE_SEQ
    /\ pc' = "crashed"
    /\ exit_status' = 1
    /\ last_op' = "SetupKeyError"
    /\ UNCHANGED <<plan, fifo_depth, nb_motors, has_sm, sm_active, has_motors, pin_sleep,
                   seq16bits, motors_len_seq, ci, cj, put_i, nloops, fifo,
                   woken, enqueued, stop_called>>
    /\ UNCHANGED pio_vars

\* The two replay branches swapped.
mut_select_mode(mode) ==
    IF mode = "LOOP" THEN "animate" ELSE IF mode = "ONE" THEN "loop" ELSE "exit"

\* if self._mode=='LOOP': animate_infinite_loop() / elif self._mode=='ONE':
\* animate() / else: exit()
select_mode(mode) ==
    IF mode = "LOOP" THEN "loop" ELSE IF mode = "ONE" THEN "animate" ELSE "exit"

\* SelectMode placed ahead of the setup loop: the replay is entered while no
\* instruction has been merged yet.
mut_SelectMode ==
    /\ pc = "setup"
    /\ ci = 0
    /\ cj = 0
    /\ IF select_mode(plan.MODE) = "exit"
       THEN exit
       ELSE pc' = select_mode(plan.MODE) /\ no_exit
    /\ last_op' = "SelectMode"
    /\ UNCHANGED <<plan, fifo_depth, nb_motors, has_sm, has_motors, seq16bits,
                   motors_len_seq, ci, cj, put_i, nloops, fifo, woken, enqueued>>
    /\ UNCHANGED pio_vars

\* The setup loops are over: the replay the plan's MODE names is entered.
SelectMode ==
    /\ pc = "setup"
    /\ ci = nb_motors
    /\ IF select_mode(plan.MODE) = "exit"
       THEN exit
       ELSE pc' = select_mode(plan.MODE) /\ no_exit
    /\ last_op' = "SelectMode"
    /\ UNCHANGED <<plan, fifo_depth, nb_motors, has_sm, has_motors, seq16bits,
                   motors_len_seq, ci, cj, put_i, nloops, fifo, woken, enqueued>>
    /\ UNCHANGED pio_vars

\* animate / animate_infinite_loop: self.wake_motors()
WakeMotors ==
    /\ pc \in {"animate", "loop"}
    /\ pin_sleep' = wake_motors
    /\ woken' = 0..(nb_motors - 1)
    /\ pc' = (IF pc = "animate" THEN "animate_put" ELSE "loop_put")
    /\ put_i' = 0
    /\ last_op' = "WakeMotors"
    /\ UNCHANGED <<plan, fifo_depth, nb_motors, has_sm, sm_active, has_motors, seq16bits,
                   motors_len_seq, ci, cj, nloops, fifo, exit_status, enqueued,
                   stop_called>>
    /\ UNCHANGED pio_vars

\* A put() that does not wait: the word is written to the TX FIFO whether
\* or not it has room.
mut_PutWord ==
    /\ pc \in {"animate_put", "loop_put"}
    /\ put_i < Len(seq16bits)
    /\ fifo' = Append(fifo, seq16bits[put_i + 1])
    /\ enqueued' = Append(enqueued, seq16bits[put_i + 1])
    /\ put_i' = put_i + 1
    /\ last_op' = "PutWord"
    /\ UNCHANGED <<plan, fifo_depth, pc, nb_motors, has_sm, sm_active, has_motors, pin_sleep,
                   seq16bits, motors_len_seq, ci, cj, nloops, exit_status, woken,
                   stop_called>>
    /\ UNCHANGED pio_vars

\* SM_16bits.put: the next word of the array is written to the TX FIFO; the
\* call waits while the FIFO is full.
PutWord ==
    /\ pc \in {"animate_put", "loop_put"}
    /\ put_i < Len(seq16bits)
    /\ Len(fifo) < fifo_depth
    /\ fifo' = Append(fifo, seq16bits[put_i + 1])
    /\ enqueued' = Append(enqueued, seq16bits[put_i + 1])
    /\ put_i' = put_i + 1
    /\ last_op' = "PutWord"
    /\ UNCHANGED <<plan, fifo_depth, pc, nb_motors, has_sm, sm_active, has_motors, pin_sleep,
                   seq16bits, motors_len_seq, ci, cj, nloops, exit_status, woken,
                   stop_called>>
    /\ UNCHANGED pio_vars

\* animate: put() has returned, 'Animation complete.', the program ends.
AnimateDone ==
    /\ pc = "animate_put"
    /\ put_i = Len(seq16bits)
    /\ pc' = "done"
    /\ exit_status' = 0
    /\ last_op' = "AnimateDone"
    /\ UNCHANGED <<plan, fifo_depth, nb_motors, has_sm, sm_active, has_motors, pin_sleep,
                   seq16bits, motors_len_seq, ci, cj, put_i, nloops, fifo, woken,
                   enqueued, stop_called>>
    /\ UNCHANGED pio_vars

\* animate_infinite_loop: put() has returned and `while True` calls it again.
LoopAgain ==
    /\ pc = "loop_put"
    /\ put_i = Len(seq16bits)
    /\ nloops < MaxLoops
    /\ nloops' = nloops + 1
    /\ put_i' = 0
    /\ last_op' = "LoopAgain"
    /\ UNCHANGED <<plan, fifo_depth, pc, nb_motors, has_sm, sm_active, has_motors, pin_sleep,
                   seq16bits, motors_len_seq, ci, cj, fifo, exit_status, woken,
                   enqueued, stop_called>>
    /\ UNCHANGED pio_vars

\* animate_infinite_loop: KeyboardInterrupt inside the try, then
\* 'Animation complete.' and self.exit().
KeyboardInterrupt ==
    /\ pc = "loop_put"
    /\ exit
    /\ last_op' = "KeyboardInterrupt"
    /\ UNCHANGED <<plan, fifo_depth, nb_motors, has_sm, has_motors, seq16bits,
                   motors_len_seq, ci, cj, put_i, nloops, fifo, woken, enqueued>>
    /\ UNCHANGED pio_vars

\* ------------------------------------------------------ SM_16bits._fifo_read

\* pull() / autopull: an empty OSR is refilled from the TX FIFO.
OsrPull ==
    /\ sm_active
    /\ osr_count = 32
    /\ fifo # <<>>
    /\ osr' = Head(fifo)
    /\ osr_count' = 0
    /\ fifo' = Tail(fifo)
    /\ last_op' = "OsrPull"
    /\ UNCHANGED <<plan, fifo_depth, pins, emitted, enqueued>>
    /\ UNCHANGED python_vars

\* A shift in the other direction: the high half comes out first.
mut_out_pins(w) == (w \div 65536) % 65536

\* The 16 bits out(pins,16) drives onto the pins.
out_pins(w) == w % 65536

\* out(pins,16): the low 16 bits of the OSR go to the pins and the OSR is
\* shifted right by 16; executed twice per word (y = 1, 0).
PioOut ==
    /\ sm_active
    /\ osr_count < 32
    /\ pins' = out_pins(osr)
    /\ osr' = osr \div 65536
    /\ osr_count' = osr_count + 16
    /\ emitted' = Append(emitted, pins')
    /\ last_op' = "PioOut"
    /\ UNCHANGED <<plan, fifo_depth, fifo, enqueued>>
    /\ UNCHANGED python_vars

\* ------------------------------------------------------- the specification

Next ==
    \/ ReadGcode
    \/ StartSM
    \/ CreateMotors
    \/ AddSeq
    \/ NextMotor
    \/ SetupKeyError
    \/ SelectMode
    \/ WakeMotors
    \/ PutWord
    \/ AnimateDone
    \/ LoopAgain
    \/ KeyboardInterrupt
    \/ OsrPull
    \/ PioOut

Spec == Init /\ [][Next]_vars

\* The program under the scheduling the hardware gives it: the PIO state
\* machine is free running (wrap_target .. wrap), so while it is active a
\* pull that can happen and an out that can happen do happen; the Python
\* thread is the only thread and is never suspended other than by a put()
\* on a full FIFO, so the statement it stands at is executed.  A
\* KeyboardInterrupt comes from outside and is not forced.
FairSpec ==
    /\ Spec
    /\ WF_vars(OsrPull)
    /\ WF_vars(PioOut)
    /\ WF_vars(WakeMotors)
    /\ WF_vars(PutWord)
    /\ WF_vars(AnimateDone)

\* ---------------------------------------------------------------- claims

\* Bit n of the word w, n in 0..31 (the shift is split so that no power
\* above 2^30 is computed).
Bit(w, n) ==
    IF n <= 30 THEN (w \div Pow2(n)) % 2
    ELSE ((w \div Pow2(30)) \div Pow2(n - 30)) % 2

\* The four bits channel j owns in a PulseWord: direction and step of phase A
\* (bits 2j, 2j+1) and of phase B (bits 16+2j, 16+2j+1).
ChannelBits(w, j) ==
    <<Bit(w, 2 * j), Bit(w, 2 * j + 1), Bit(w, 16 + 2 * j), Bit(w, 16 + 2 * j + 1)>>

\* The step just taken is a completed add_seq (the instruction was parsed
\* and merged).
Merged == pc = "setup" /\ last_op' = "AddSeq" /\ cj' = cj + 1

\* C1: an add_seq of the request (action, steps, dir, speed) on a channel
\* whose cursor is c leaves, in every slot of [c, c + steps*(1+speed)), the
\* channel's direction bit of phase A equal to dir and its step bit of
\* phase A set exactly at the slots c + i*(1+speed), i in 0..steps-1, when
\* action = 1, and at no slot when action = 0.
C1_StepBitsAtStride ==
    [][Merged =>
        LET req == parse(plan.GCODE_SEQ[Str(ci)][cj + 1])
            c   == motors_len_seq[ci]
            pulses == IF req.action = 1
                      THEN {c + i * (1 + req.speed) : i \in 0..(req.step - 1)}
                      ELSE {}
        IN  \A k \in c..(c + req.step * (1 + req.speed) - 1) :
                /\ k < Len(seq16bits')
                /\ Bit(seq16bits'[k + 1], 2 * ci + 1) = (IF k \in pulses THEN 1 ELSE 0)
                /\ Bit(seq16bits'[k + 1], 2 * ci) = req.dir
    ]_vars

\* A slowed moving request (a1_s1_d0_v1) merged behind an earlier request of
\* channel 1: its pulse is in slot 1 and slot 2 only holds the direction.
C1_Witness ==
    /\ last_op = "AddSeq"
    /\ pc = "setup"
    /\ ci = 1
    /\ cj = 2
    /\ plan.GCODE_SEQ["1"] = <<GcodeHold1, GcodeSlow1>>
    /\ motors_len_seq[1] = 3
    /\ Bit(seq16bits[2], 3) = 1
    /\ Bit(seq16bits[3], 3) = 0

\* C2: the bits of channel j, in every slot and both phases, change only in
\* an add_seq of channel j: any other step, and an add_seq of another
\* channel, leaves them as they were (a slot appended by growth holds 0 for
\* j).
C2_OtherChannelsUntouched ==
    [][\A j \in 0..7 :
        ~(Merged /\ j = ci) =>
            \A k \in 1..Len(seq16bits') :
                ChannelBits(seq16bits'[k], j) =
                    (IF k <= Len(seq16bits)
                     THEN ChannelBits(seq16bits[k], j)
                     ELSE <<0, 0, 0, 0>>)
    ]_vars

\* Channel 1 has just been merged into a slot where channel 0 pulses: both
\* step bits are set in slot 0.
C2_Witness ==
    /\ last_op = "AddSeq"
    /\ pc = "setup"
    /\ ci = 1
    /\ cj >= 1
    /\ Len(seq16bits) >= 1
    /\ ChannelBits(seq16bits[1], 0) = <<1, 1, 1, 0>>
    /\ ChannelBits(seq16bits[1], 1) = <<0, 1, 0, 0>>

\* The setup loops have merged every instruction of every motor.
Compiled == ci = nb_motors /\ pc \in {"setup", "animate", "loop", "animate_put", "loop_put", "done"}

RECURSIVE ExpandedTotal(_)
\* The sum of steps*(1+speed) over a list of instructions.
ExpandedTotal(gcodes) ==
    IF gcodes = <<>> THEN 0
    ELSE LET r == parse(Head(gcodes))
         IN  r.step * (1 + r.speed) + ExpandedTotal(Tail(gcodes))

\* The largest total expanded step count of a motor of the plan.
MaxExpanded ==
    LET totals == {ExpandedTotal(plan.GCODE_SEQ[Str(i)]) : i \in 0..(nb_motors - 1)}
    IN  IF totals = {} THEN 0 ELSE CHOOSE m \in totals : \A t \in totals : t <= m

\* C3: after compilation the timeline is as long as the largest total
\* expanded step count of a channel, with no trailing slot.
C3_LengthIsMaxExpanded == Compiled => Len(seq16bits) = MaxExpanded

\* C10: in every PulseWord of the timeline, at every moment of the
\* compilation, phase B is phase A with the step bits cleared: for every
\* channel the step bit of phase B is 0 and the direction bit of phase B is
\* the direction bit of phase A; no bit above bit 31 is set.
C10_PhaseBReleasesStep ==
    \A k \in 1..Len(seq16bits) :
        /\ seq16bits[k] \div 65536 < 65536
        /\ \A j \in 0..7 :
              /\ Bit(seq16bits[k], 16 + 2 * j + 1) = 0
              /\ Bit(seq16bits[k], 16 + 2 * j) = Bit(seq16bits[k], 2 * j)

\* A slot in which channel 0 pulses forward while channel 1 holds its
\* direction.
C10_Witness ==
    /\ pc = "setup"
    /\ Len(seq16bits) >= 2
    /\ ChannelBits(seq16bits[1], 0) = <<1, 1, 1, 0>>
    /\ ChannelBits(seq16bits[1], 1) = <<1, 0, 1, 0>>

\* The half-words of a timeline in replay order: phase A (the low 16 bits)
\* then phase B (the high 16 bits) of slot 0, of slot 1, ...
HalfWords(seq) ==
    [i \in 1..(2 * Len(seq)) |->
        IF i % 2 = 1 THEN seq[(i + 1) \div 2] % 65536
        ELSE seq[i \div 2] \div 65536]

IsPrefix(a, b) == Len(a) <= Len(b) /\ a = SubSeq(b, 1, Len(a))

\* C4: in single replay (animate) the words written to the FIFO are the
\* timeline in slot order, complete once put() has returned; the half-words
\* on the pins are phase A then phase B of slot 0, 1, ... in that order; no
\* half-word is lost between the FIFO and the pins; and once the FIFO and
\* the OSR have drained exactly 2*len(timeline) half-words were emitted.
C4_SingleReplayInOrder ==
    pc \in {"animate", "animate_put", "done"} =>
        /\ IsPrefix(enqueued, seq16bits)
        /\ IsPrefix(emitted, HalfWords(seq16bits))
        /\ 2 * Len(enqueued) = Len(emitted) + 2 * Len(fifo) + (32 - osr_count) \div 16
        /\ pc = "done" => enqueued = seq16bits
        /\ (pc = "done" /\ fifo = <<>> /\ osr_count = 32) =>
               /\ emitted = HalfWords(seq16bits)
               /\ Len(emitted) = 2 * Len(seq16bits)

\* A single replay of a timeline longer than the FIFO, with pulses in it,
\* has been emitted to the end.
C4_Witness ==
    /\ pc = "done"
    /\ fifo = <<>>
    /\ osr_count = 32
    /\ Len(seq16bits) > fifo_depth
    /\ Len(emitted) = 2 * Len(seq16bits)
    /\ \E i \in 1..Len(emitted) : emitted[i] # 0 /\ emitted[i] # emitted[1]

\* C5: in loop replay the words written to the FIFO are the timeline again
\* and again, the program leaves the put() loop only on the
\* KeyboardInterrupt, and once stop() has been called no word is written.
C5_LoopUntilStop ==
    [][/\ stop_called => enqueued' = enqueued
       /\ (pc = "loop_put" /\ pc' # "loop_put") => last_op' = "KeyboardInterrupt"
       /\ plan.MODE = "LOOP" =>
              /\ pc' \notin {"animate", "animate_put", "done"}
              /\ \A i \in 1..Len(enqueued') :
                     enqueued'[i] = seq16bits'[((i - 1) % Len(seq16bits')) + 1]
    ]_vars

\* The loop was interrupted during its second pass over the timeline.
C5_Witness ==
    /\ plan.MODE = "LOOP"
    /\ stop_called
    /\ pc = "exited"
    /\ nloops >= 1
    /\ Len(seq16bits) >= 2
    /\ Len(enqueued) > Len(seq16bits)
    /\ Len(enqueued) < 2 * Len(seq16bits)

\* The text t is a<0|1>_s<digits>_d<0|1>_v<digits>.
MatchesGrammar(t) ==
    \E n1, n2 \in 1..Len(t) :
        /\ Len(t) = 9 + n1 + n2
        /\ t[1] = "a" /\ t[2] \in {"0", "1"}
        /\ SubSeq(t, 3, 4) = <<"_", "s">>
        /\ \A i \in 5..(4 + n1) : t[i] \in Digits
        /\ SubSeq(t, 5 + n1, 6 + n1) = <<"_", "d">>
        /\ t[7 + n1] \in {"0", "1"}
        /\ SubSeq(t, 8 + n1, 9 + n1) = <<"_", "v">>
        /\ \A i \in (10 + n1)..(9 + n1 + n2) : t[i] \in Digits

\* Some instruction of some channel of the plan is not in the grammar.
PlanHasBadInstruction ==
    /\ plan.file = "ok"
    /\ \E k \in DOMAIN plan.GCODE_SEQ :
           \E i \in 1..Len(plan.GCODE_SEQ[k]) : ~MatchesGrammar(plan.GCODE_SEQ[k][i])

\* C6: when an instruction of the plan, in any channel, is not in the
\* grammar, no word is ever written to the FIFO and no motor is ever woken.
C6_BadInstructionAborts ==
    PlanHasBadInstruction => enqueued = <<>> /\ woken = {}

\* C7: a plan with more than 8 channels that have instructions is rejected
\* before anything is built: no state machine is created, no add_seq runs
\* and no word is written; so every merged channel id is in 0..7 and every
\* word of the timeline has its bits in 0..31.
C7_ChannelOverflowRejected ==
    /\ (plan.file = "ok"
          /\ Cardinality({k \in DOMAIN plan.GCODE_SEQ : plan.GCODE_SEQ[k] # <<>>}) > 8) =>
           /\ ~has_sm /\ ~sm_active /\ ~has_motors
           /\ seq16bits = <<>>
           /\ \A i \in 0..7 : motors_len_seq[i] = 0
           /\ enqueued = <<>>
           /\ last_op \in {"init", "ReadGcode"}
    /\ pc \in {"start_sm", "motors", "setup"} => nb_motors <= 8
    /\ last_op = "AddSeq" => ci \in 0..7
    /\ \A k \in 1..Len(seq16bits) : seq16bits[k] >= 0 /\ seq16bits[k] \div 65536 < 65536

\* The plan with nine motors has been rejected.
C7_Witness ==
    /\ plan.file = "ok"
    /\ DOMAIN plan.GCODE_SEQ = {"0", "1", "2", "3", "4", "5", "6", "7", "8"}
    /\ nb_motors = 9
    /\ pc = "exited"
    /\ exit_status = 1

\* C8: when the run has ended on an error, the state machine is stopped if
\* it was started, the motors that were created sleep, and the exit status
\* is not zero.
C8_FatalErrorSafeShutdown ==
    pc \in {"exited", "crashed"} =>
        /\ has_sm => ~sm_active
        /\ (has_motors /\ nb_motors > 0) => pin_sleep = MODE(plan.DRIVER).sleep
        /\ exit_status # 0

\* C9: the KeyboardInterrupt of the loop replay stops the state machine, and
\* once stop() has been called the state machine is idle, nothing more is
\* driven onto the pins and the words left in the FIFO stay there.
C9_StopDiscardsQueue ==
    [][/\ last_op' = "KeyboardInterrupt" => (stop_called' /\ ~sm_active')
       /\ stop_called =>
              /\ ~sm_active'
              /\ emitted' = emitted
              /\ pins' = pins
              /\ fifo' = fifo
              /\ osr_count' = osr_count
    ]_vars

\* The loop was interrupted with words in the FIFO and a word half shifted
\* out of the OSR.
C9_Witness ==
    /\ stop_called
    /\ last_op = "KeyboardInterrupt"
    /\ ~sm_active
    /\ Len(fifo) >= 1
    /\ osr_count = 16
    /\ emitted # <<>>

RECURSIVE MergeList(_, _, _, _)
\* The timeline after the add_seq of every instruction of gcodes, in order,
\* for motor id starting at cursor.
MergeList(seq, id, cursor, gcodes) ==
    IF gcodes = <<>> THEN seq
    ELSE LET r == parse(Head(gcodes))
         IN  MergeList(add_seq(seq, id, cursor, r), id,
                       cursor + r.step * (1 + r.speed), Tail(gcodes))

RECURSIVE MergeInOrder(_, _)
\* The timeline after the motors are merged in the order given (a sequence
\* of motor ids), each with its own instructions in their order.
MergeInOrder(seq, order) ==
    IF order = <<>> THEN seq
    ELSE MergeInOrder(
             MergeList(seq, Head(order), 0, plan.GCODE_SEQ[Str(Head(order))]),
             Tail(order))

\* The orders in which the motors 0..n-1 can be merged.
MergeOrders(n) ==
    {o \in [1..n -> 0..(n - 1)] : \A a, b \in 1..n : a # b => o[a] # o[b]}

\* C11: the compiled timeline, its length and every word, is what merging
\* the motors in any other order gives (stated for plans of at most 3
\* motors, whose orders are enumerated).
C11_MergeOrderIrrelevant ==
    (Compiled /\ nb_motors <= 3) =>
        \A o \in MergeOrders(nb_motors) : MergeInOrder(<<>>, o) = seq16bits

\* The word motor id alone contributes to a slot: its direction in both
\* phases and, when pulse is 1, its step bit in phase A.
OwnWord(id, dir, pulse) ==
    dir * Pow2(2 * id) + pulse * Pow2(2 * id + 1) + dir * Pow2(16 + 2 * id)

\* C12: across every add_seq the timeline never gets shorter; it keeps its
\* length when cursor + expandedSteps does not exceed it; and a slot
\* appended by the growth was zero before the merge:
\* after it, it holds the motor's own contribution when it lies in the
\* request's range and 0 otherwise.
C12_GrowthMonotonic ==
    [][/\ Len(seq16bits') >= Len(seq16bits)
       /\ Merged =>
            LET req == parse(plan.GCODE_SEQ[Str(ci)][cj + 1])
                c   == motors_len_seq[ci]
                e   == req.step * (1 + req.speed)
            IN  /\ (c + e <= Len(seq16bits)) => Len(seq16bits') = Len(seq16bits)
                /\ \A k \in (Len(seq16bits) + 1)..Len(seq16bits') :
                       seq16bits'[k] =
                           (IF (k - 1) \in c..(c + e - 1)
                            THEN OwnWord(ci, req.dir,
                                     IF req.action = 1 /\ (k - 1 - c) % (1 + req.speed) = 0
                                     THEN 1 ELSE 0)
                            ELSE 0)
    ]_vars

\* 10 expanded steps on motor 0, then 6 on motor 1: the length stays 10.
C12_Witness ==
    /\ plan.GCODE_SEQ = TenThenSix
    /\ last_op = "AddSeq"
    /\ ci = 1
    /\ cj = 1
    /\ motors_len_seq[0] = 10
    /\ motors_len_seq[1] = 6
    /\ Len(seq16bits) = 10

\* C13: the cursor of a motor is 0 at its first request and, at its k-th,
\* the sum of the expanded steps of its earlier requests; a completed
\* add_seq advances it by exactly steps*(1+speed) and leaves the cursors of
\* the other motors alone; no other step changes a cursor.
C13_CursorPerChannel ==
    [][IF Merged
       THEN LET gcodes == plan.GCODE_SEQ[Str(ci)]
                req    == parse(gcodes[cj + 1])
            IN  /\ motors_len_seq[ci] = ExpandedTotal(SubSeq(gcodes, 1, cj))
                /\ motors_len_seq'[ci] = motors_len_seq[ci] + req.step * (1 + req.speed)
                /\ \A j \in 0..7 : j # ci => motors_len_seq'[j] = motors_len_seq[j]
       ELSE motors_len_seq' = motors_len_seq
    ]_vars

\* The second request of motor 1 has moved its cursor from 1 to 3 while
\* the cursor of motor 0 stays at 2.
C13_Witness ==
    /\ plan.GCODE_SEQ = TwoMotors
    /\ last_op = "AddSeq"
    /\ ci = 1
    /\ cj = 2
    /\ motors_len_seq[0] = 2
    /\ motors_len_seq[1] = 3

\* C14: compilation is over before the replay starts.  A motor is woken or
\* a word is enqueued only once the setup loop has visited all its motors
\* and every add_seq it calls has finished (each visited cursor stands at
\* the end of its list), and once a motor is woken or a word is enqueued the
\* timeline is never modified again, in the single replay and across the
\* passes of the endless one.
C14_CompileBeforeReplay ==
    [][/\ (enqueued' # <<>> \/ woken' # {}) =>
            /\ pc' \notin {"read", "start_sm", "motors", "setup"}
            /\ ci' = nb_motors'
            /\ \A i \in 0..(nb_motors' - 1) :
                   /\ Str(i) \in DOMAIN plan.GCODE_SEQ
                   /\ motors_len_seq'[i] = ExpandedTotal(plan.GCODE_SEQ[Str(i)])
       /\ (enqueued # <<>> \/ woken # {}) =>
            /\ seq16bits' = seq16bits
            /\ motors_len_seq' = motors_len_seq
            /\ last_op' # "AddSeq"
    ]_vars

\* The endless replay is in its second pass over a timeline of two motors:
\* words have been enqueued, and the timeline is the one the setup built.
C14_Witness ==
    /\ plan.GCODE_SEQ = TwoMotors
    /\ plan.MODE = "LOOP"
    /\ nloops >= 1
    /\ last_op = "PutWord"
    /\ Len(enqueued) > Len(seq16bits)
    /\ seq16bits = MergeInOrder(<<>>, <<0, 1>>)

\* C15: the single replay ends.  While animate runs the state machine is
\* active; the TX FIFO never holds more words than its depth; and, the PIO
\* program and the Python thread being scheduled fairly, a put() that finds
\* the FIFO full sees the state machine make room for its word, and animate
\* reaches its end with every word enqueued, for every FIFO depth from 1 on
\* and every timeline.
C15_SingleReplayTerminates ==
    /\ [](Len(fifo) <= fifo_depth)
    /\ [](pc \in {"animate", "animate_put"} => sm_active)
    /\ (pc = "animate_put" /\ put_i < Len(seq16bits) /\ Len(fifo) = fifo_depth)
         ~> (pc = "animate_put" /\ Len(fifo) < fifo_depth)
    /\ (pc \in {"animate", "animate_put"})
         ~> (pc = "done" /\ enqueued = seq16bits)

\* The single replay of a timeline of at least three words has ended with
\* a FIFO of depth 1: the FIFO and the OSR hold one word each, so the third
\* put() had to wait for the state machine.
C15_Witness ==
    /\ plan.MODE = "ONE"
    /\ pc = "done"
    /\ fifo_depth = 1
    /\ Len(seq16bits) >= 3
    /\ enqueued = seq16bits

\* C16: once stop() has been called and the state machine is idle, the
\* step line of every motor is low on the output pins: the last half-word
\* that came out is a phase B.
C16_StopLeavesStepLinesLow ==
    (stop_called /\ ~sm_active) =>
        /\ \A id \in 0..7 : Bit(pins, pin_step(id)) = 0
        /\ osr_count # 16

\* C17: for a plan read from the file whose lists are keyed in "0".."7" and
\* hold only instructions of the grammar, whatever lists are empty or
\* absent, the compilation does not break off and, once it is over, the
\* cursor of every channel with a non-empty list is the sum of the expanded
\* steps of its list.
C17_EveryChannelMerged ==
    LET g == plan.GCODE_SEQ
    IN  (/\ plan.file = "ok"
         /\ ~PlanHasBadInstruction
         /\ DOMAIN g \subseteq {Str(i) : i \in 0..7}) =>
            /\ pc # "crashed"
            /\ Compiled =>
                  \A i \in 0..7 :
                      (Str(i) \in DOMAIN g /\ g[Str(i)] # <<>>) =>
                          motors_len_seq[i] = ExpandedTotal(g[Str(i)])

\* C18: in every state the cursor of every motor is at most the length of
\* the timeline, and at each completed add_seq the timeline after the growth
\* step holds every slot the two loops write: cursor + i for i below the
\* expanded steps is a valid index.
C18_CursorWithinTimeline ==
    /\ [](\A i \in 0..7 : motors_len_seq[i] <= Len(seq16bits))
    /\ [][Merged =>
            LET req   == parse(plan.GCODE_SEQ[Str(ci)][cj + 1])
                c     == motors_len_seq[ci]
                grown == Extend(seq16bits, c, ExpandedSteps(req))
            IN  /\ Len(seq16bits') = Len(grown)
                /\ \A i \in 0..(ExpandedSteps(req) - 1) :
                       (c + i + 1) \in DOMAIN seq16bits'
         ]_vars

\* The second request of motor 0 starts at cursor 2, the end of the
\* timeline; the timeline has grown to 4 slots and the last one is written.
C18_Witness ==
    /\ last_op = "AddSeq"
    /\ ci = 0
    /\ cj = 2
    /\ motors_len_seq[0] = 4
    /\ Len(seq16bits) = 4
    /\ Bit(seq16bits[4], pin_step(0)) = 1

=============================================================================
